---------------------------- MODULE Spec2Model ----------------------------
(***************************************************************************)
(* Model of lira's navigation core (src/lira/tui/widgets.py): the List     *)
(* widget (focus index, committed index, cursor, key and mouse handlers)   *)
(* and the three hierarchy views built on it (BooksList, BookChaptersList, *)
(* ChapterSectionsList).                                                   *)
(*                                                                         *)
(* Rows are numbered from 0 as in the source; TLA+ sequences are indexed   *)
(* from 1, so row i of a list is elements[i + 1].                          *)
(***************************************************************************)
EXTENDS Integers, Sequences, FiniteSets, TLC

\* Longest element sequence of a List widget built directly.
MaxLen == 2
\* Most books of the collection, chapters of a book, sections of a chapter.
MaxItems == 3
\* The count of consecutive Down presses saturates here.
MaxRun == MaxLen + MaxItems
\* Most characters of an element's text handed to List._get_text.
MaxText == 2
\* Most child nodes of a section handed to ContentArea.get_label.
MaxNodes == 2

VARIABLES
    views,    \* the views pushed so far, the active one last
    content,  \* the section last handed to the content renderer
    lira,     \* what has been read of the document collection
    calls,    \* the callbacks invoked by the last operation, in order
    last,     \* the last operation: its name, argument, outcome
    downs,    \* consecutive Down presses made since the focus was on row 0
    rendered  \* the last rendering: what was rendered and the runs produced

nav == <<views, content, lira, calls, last, downs>>
vars == <<views, content, lira, calls, last, downs, rendered>>

Min(a, b) == IF a < b THEN a ELSE b
Max(a, b) == IF a > b THEN a ELSE b

----------------------------------------------------------------------------
(* ListElement and List                                                     *)

\* A ListElement, reduced to whether each optional callback is present.
ListElement(on_select, on_focus) ==
    [on_select |-> on_select, on_focus |-> on_focus]

Point(x, y) == [x |-> x, y |-> y]

\* No callback is to be invoked.
NoRow == -1

\* List.__init__: focus on row 0, nothing committed, cursor at the origin.
List(elements) ==
    [elements |-> elements, index |-> 0, selected |-> -1, cursor |-> Point(0, 0)]

\* Python's sequence indexing: elements[i] is defined for -len <= i < len,
\* a negative i counting from the end; any other i raises IndexError.
Subscriptable(elements, i) == -Len(elements) <= i /\ i < Len(elements)

RowOf(elements, i) == IF i >= 0 THEN i ELSE Len(elements) + i

\* List.current_element, defined when Subscriptable(l.elements, l.index).
current_element(l) == l.elements[RowOf(l.elements, l.index) + 1]

\* The outcome of a List method: the list after it, the error it raised,
\* and the callback it ends by invoking (cb of row fire), if any.
Outcome(l, err, cb, fire) == [list |-> l, err |-> err, cb |-> cb, fire |-> fire]

\* select() that moves the focus and forgets to record the commit.
select_uncommitted(l, index) ==
    LET l1 == [l EXCEPT !.index = index, !.cursor = Point(0, index)]
    IN  IF ~Subscriptable(l1.elements, l1.index)
        THEN Outcome(l1, "IndexError", "on_select", NoRow)
        ELSE Outcome(l1, "none", "on_select",
                     IF current_element(l1).on_select
                     THEN RowOf(l1.elements, l1.index) ELSE NoRow)

\* select() that takes the committed element out of the list.
select_consumes(l, index) ==
    LET l1 == [l EXCEPT !.index = index,
                        !.selected = index,
                        !.cursor = Point(0, index)]
    IN  IF ~Subscriptable(l1.elements, l1.index)
        THEN Outcome(l1, "IndexError", "on_select", NoRow)
        ELSE Outcome([l1 EXCEPT !.elements = SubSeq(@, 1, Len(@) - 1)], "none", "on_select",
                     IF current_element(l1).on_select
                     THEN RowOf(l1.elements, l1.index) ELSE NoRow)

select(l, index) ==
    LET l1 == [l EXCEPT !.index = index,
                        !.selected = index,
                        !.cursor = Point(0, index)]
    IN  IF ~Subscriptable(l1.elements, l1.index)
        THEN Outcome(l1, "IndexError", "on_select", NoRow)
        ELSE Outcome(l1, "none", "on_select",
                     IF current_element(l1).on_select
                     THEN RowOf(l1.elements, l1.index) ELSE NoRow)

\* focus() that records the row as committed too.
focus_commits(l, index) ==
    LET l1 == [l EXCEPT !.index = index, !.selected = index, !.cursor = Point(0, index)]
    IN  IF ~Subscriptable(l1.elements, l1.index)
        THEN Outcome(l1, "IndexError", "on_focus", NoRow)
        ELSE Outcome(l1, "none", "on_focus",
                     IF current_element(l1).on_focus
                     THEN RowOf(l1.elements, l1.index) ELSE NoRow)

\* focus() that leaves the cursor where it was.
focus_leaves_cursor(l, index) ==
    LET l1 == [l EXCEPT !.index = index]
    IN  IF ~Subscriptable(l1.elements, l1.index)
        THEN Outcome(l1, "IndexError", "on_focus", NoRow)
        ELSE Outcome(l1, "none", "on_focus",
                     IF current_element(l1).on_focus
                     THEN RowOf(l1.elements, l1.index) ELSE NoRow)

focus(l, index) ==
    LET l1 == [l EXCEPT !.index = index, !.cursor = Point(0, index)]
    IN  IF ~Subscriptable(l1.elements, l1.index)
        THEN Outcome(l1, "IndexError", "on_focus", NoRow)
        ELSE Outcome(l1, "none", "on_focus",
                     IF current_element(l1).on_focus
                     THEN RowOf(l1.elements, l1.index) ELSE NoRow)

\* previous() without its clamp at the first row.
previous_unclamped(l) == focus(l, l.index - 1)

previous(l) == focus(l, Max(l.index - 1, 0))

\* next() without its clamp at the last row.
next_unclamped(l) == focus(l, l.index + 1)

\* next() going round to the first row after the last.
next_wraps(l) == focus(l, IF l.index + 1 > Len(l.elements) - 1 THEN 0 ELSE l.index + 1)

next(l) == focus(l, Min(l.index + 1, Len(l.elements) - 1))

\* MOUSE_UP is the pointer release; the handler tells it from every other
\* type, of which a press and a scroll stand here.
MouseEventType == {"MOUSE_UP", "MOUSE_DOWN", "SCROLL_UP"}

\* mouse_select() that only moves the focus to the row released on.
mouse_select_focuses(l, index, event_type) ==
    IF event_type = "MOUSE_UP"
    THEN focus(l, index)
    ELSE Outcome(l, "none", "on_select", NoRow)

\* mouse_select() that commits on every mouse event.
mouse_select_any(l, index, event_type) == select(l, index)

mouse_select(l, index, event_type) ==
    IF event_type = "MOUSE_UP"
    THEN select(l, index)
    ELSE Outcome(l, "none", "on_select", NoRow)

\* A text is a sequence of characters; "\n" is the line separator.
Chars == {"a", "\n"}
Texts == UNION {[1..n -> Chars] : n \in 0..MaxText}

\* element.text.replace("\n", " ")
replace(text) == [k \in 1..Len(text) |-> IF text[k] = "\n" THEN " " ELSE text[k]]

\* List._get_text that leaves the element's own line separators in place.
_get_text_unreplaced(texts, index) ==
    [i \in 1..Len(texts) |->
        [style |-> IF i - 1 = index THEN "class:list-item.focused" ELSE "",
         text |-> texts[i] \o (IF i - 1 < Len(texts) - 1 THEN <<"\n">> ELSE <<>>),
         handler |-> i - 1]]

\* List._get_text, for the elements' texts and the focus index: one run
\* (style, text, mouse handler bound to the row) per element.
_get_text(texts, index) ==
    [i \in 1..Len(texts) |->
        [style |-> IF i - 1 = index THEN "class:list-item.focused" ELSE "",
         text |-> replace(texts[i]) \o (IF i - 1 < Len(texts) - 1 THEN <<"\n">> ELSE <<>>),
         handler |-> i - 1]]

\* The Up key: self.previous().
key_Up(l) == [o |-> previous(l), transfer |-> "none"]

\* The Shift-Tab key: on the first row focus_previous(event) hands the
\* keyboard focus to the previous focusable window and the list is untouched.
key_BackTab(l) ==
    IF l.index <= 0
    THEN [o |-> Outcome(l, "none", "on_focus", NoRow), transfer |-> "focus_previous"]
    ELSE [o |-> previous(l), transfer |-> "none"]

\* The Down key: self.next().
key_Down(l) == [o |-> next(l), transfer |-> "none"]

\* The Tab key leaving the list one press late.
key_Tab_late(l) ==
    IF l.index >= Len(l.elements)
    THEN [o |-> Outcome(l, "none", "on_focus", NoRow), transfer |-> "focus_next"]
    ELSE [o |-> next(l), transfer |-> "none"]

\* The Tab key: on the last row focus_next(event).
key_Tab(l) ==
    IF l.index >= Len(l.elements) - 1
    THEN [o |-> Outcome(l, "none", "on_focus", NoRow), transfer |-> "focus_next"]
    ELSE [o |-> next(l), transfer |-> "none"]

\* Space and Enter doing nothing on a list without elements.
key_Enter_guarded(l) ==
    IF Len(l.elements) = 0
    THEN [o |-> Outcome(l, "none", "on_select", NoRow), transfer |-> "none"]
    ELSE [o |-> select(l, l.index), transfer |-> "none"]

\* Space and Enter: self.select(self.index).
key_Enter(l) == [o |-> select(l, l.index), transfer |-> "none"]

----------------------------------------------------------------------------
(* The hierarchy views                                                      *)

\* A world is the part of the state the callbacks act on.
World(v, c, lr) == [views |-> v, content |-> c, lira |-> lr]

\* What an operation leaves behind: the world, the callbacks it invoked,
\* the error it ended in ("none" when it returned), and whether the keyboard
\* focus was handed to a neighbouring window.
Result(w, cs, err, transfer) ==
    [w |-> w, calls |-> cs, err |-> err, transfer |-> transfer]

\* One callback invocation: the list (by its level in views), the callback,
\* the row of the element.
Call(level, cb, row) == [level |-> level, cb |-> cb, row |-> row]

NoContent == [book |-> -1, chapter |-> -1, section |-> -1]

\* LiraList.__init__: the view's container is a fresh List of its elements.
LiraList(kind, book, index, elements) ==
    [kind |-> kind, book |-> book, index |-> index, container |-> List(elements)]

\* The rows of the hierarchy views carry on_select and no on_focus.
HierarchyElements(n) == [i \in 1..n |-> ListElement(TRUE, FALSE)]

BooksList(nbooks) == LiraList("BooksList", -1, -1, HierarchyElements(nbooks))

\* BookChaptersList.__init__(tui, book): one row per chapter of the book.
BookChaptersList(book, nchapters) ==
    LiraList("BookChaptersList", book, -1, HierarchyElements(nchapters))

\* tui.menu.push(widget): the widget becomes the navigation panel shown.
push(w, widget) == [w EXCEPT !.views = Append(@, widget)]

\* tui.content.render_section(section): the section is handed to the renderer.
render_section(w, book, chapter, section) ==
    [w EXCEPT !.content = [book |-> book, chapter |-> chapter, section |-> section]]

\* ChapterSectionsList._select() rendering the chapter's first section.
ChapterSectionsList__select_first(w, book, chapter, section) ==
    render_section(w, book, chapter, 0)

\* ChapterSectionsList._select(section).
ChapterSectionsList__select(w, book, chapter, section) ==
    render_section(w, book, chapter, section)

\* ChapterSectionsList.__init__ without the automatic selection of item 0.
ChapterSectionsList_unselected(w, book, index, level, toc) ==
    [widget |-> LiraList("ChapterSectionsList", book, index, HierarchyElements(toc)),
     r |-> Result(w, <<>>, "none", "none")]

\* ChapterSectionsList.__init__(tui, chapter, index): builds the list of the
\* chapter's sections (toc is the length of chapter.toc(depth=1)), then
\* selects its first item; level is the place the widget will take in views.
\* Yields the widget and a Result.
ChapterSectionsList(w, book, index, level, toc) ==
    LET view == LiraList("ChapterSectionsList", book, index, HierarchyElements(toc))
        o    == select(view.container, 0)
        done == [view EXCEPT !.container = o.list]
    IN  IF o.err /= "none"
        THEN [widget |-> done, r |-> Result(w, <<>>, o.err, "none")]
        ELSE IF o.fire = NoRow
        THEN [widget |-> done, r |-> Result(w, <<>>, "none", "none")]
        ELSE [widget |-> done,
              r |-> Result(ChapterSectionsList__select(w, book, index, o.fire),
                           <<Call(level, "on_select", o.fire)>>, "none", "none")]

\* The collection is read as the views are built: lira.books is the number
\* of books, lira.chapters the number of chapters of the book opened (-1
\* before), lira.empty the chapters found to have an empty table of
\* contents, lira.toc the number of sections of the chapter opened (-1
\* before).  A chapter read twice has the same table of contents.
Collection(nbooks) == [books |-> nbooks, chapters |-> -1, empty |-> {}, toc |-> -1]

\* BooksList.select() opening the sections of the book's first chapter.
BooksList_select_skips(w, book) ==
    {Result(push([w EXCEPT !.lira.chapters = n],
                 LiraList("ChapterSectionsList", book, 0, HierarchyElements(n))),
            <<>>, "none", "none") : n \in 0..MaxItems}

\* BooksList.select(book, i): builds the view of the book's chapters, however
\* many it has, and pushes it.
BooksList_select(w, book) ==
    {Result(push([w EXCEPT !.lira.chapters = n], BookChaptersList(book, n)),
            <<>>, "none", "none") : n \in 0..MaxItems}

\* The lengths chapter.toc(depth=1) can have for the chapter at row index.
TocLengths(w, index) == IF index \in w.lira.empty THEN {0} ELSE 0..MaxItems

\* BookChaptersList._select(chapter, index): the push happens only when the
\* construction of the sections view returned.
BookChaptersList__select(w, book, index) ==
    {LET w0 == IF toc = 0 THEN [w EXCEPT !.lira.empty = @ \cup {index}]
               ELSE [w EXCEPT !.lira.toc = toc]
         c  == ChapterSectionsList(w0, book, index, Len(w.views) + 1, toc)
     IN  IF c.r.err /= "none"
         THEN c.r
         ELSE Result(push(c.r.w, c.widget), c.r.calls, "none", "none")
     : toc \in TocLengths(w, index)}

\* The on_select callback of row `row` of the view at `level`, as bound by
\* each view's _get_elements.
on_select(w, level, row) ==
    LET v == w.views[level]
        after(rs) == {[r EXCEPT !.calls = <<Call(level, "on_select", row)>> \o @] : r \in rs}
    IN  CASE v.kind = "BooksList" -> after(BooksList_select(w, row))
          [] v.kind = "BookChaptersList" -> after(BookChaptersList__select(w, v.book, row))
          [] v.kind = "ChapterSectionsList" ->
                after({Result(ChapterSectionsList__select(w, v.book, v.index, row),
                              <<>>, "none", "none")})
          [] OTHER -> after({Result(w, <<>>, "none", "none")})

\* The on_focus callback of a row: only directly built lists carry one.
on_focus(w, level, row) ==
    {Result(w, <<Call(level, "on_focus", row)>>, "none", "none")}

\* A List method or handler run on the active view's container: the list is
\* updated, then the callback the method ends with runs.
Apply(w, h) ==
    LET level == Len(w.views)
        w1 == [w EXCEPT !.views[level].container = h.o.list]
        rs == IF h.o.err /= "none" THEN {Result(w1, <<>>, h.o.err, "none")}
              ELSE IF h.o.fire = NoRow THEN {Result(w1, <<>>, "none", "none")}
              ELSE IF h.o.cb = "on_select" THEN on_select(w1, level, h.o.fire)
              ELSE on_focus(w1, level, h.o.fire)
    IN  {[r EXCEPT !.transfer = h.transfer] : r \in rs}

Direct(o) == [o |-> o, transfer |-> "none"]

----------------------------------------------------------------------------
(* ContentArea.get_label (src/lira/ui.py)                                   *)

\* themes["default"]: the style of each structural tag.
styles ==
    [Text |-> "#fff", Strong |-> "#fff bold", Emphasis |-> "#fff italic",
     Literal |-> "#fff", Paragraph |-> "#fff", CodeBlock |-> "#fff",
     Prompt |-> "bg:#999999 #fff", TestBlock |-> "#fff", Section |-> "#fff",
     Separator |-> "#fff"]

Span(style, text) == [style |-> style, text |-> text]

\* to_formatted_text("\n", "")
LineBreak == Span("", "\n")

\* What one node adds to formated_content, with a line break after every node.
node_spans_broken(node) ==
    <<Span(styles[node.tagname], node.text), LineBreak>>

\* What one node adds to formated_content: its span and, after a paragraph,
\* a line break.  Defined when node.tagname is a key of styles.
node_spans(node) ==
    <<Span(styles[node.tagname], node.text)>>
        \o (IF node.tagname = "Paragraph" THEN <<LineBreak>> ELSE <<>>)

\* ContentArea.get_label(contents): the loop over contents.children; the
\* lookup styles[style] raises KeyError for a tag that is no key, and the
\* pass ends there without a label.
RECURSIVE get_label(_)
get_label(children) ==
    IF children = <<>> THEN [err |-> "none", spans |-> <<>>]
    ELSE IF Head(children).tagname \notin DOMAIN styles
    THEN [err |-> "KeyError", spans |-> <<>>]
    ELSE LET rest == get_label(Tail(children))
         IN  IF rest.err /= "none" THEN rest
             ELSE [err |-> "none", spans |-> node_spans(Head(children)) \o rest.spans]

----------------------------------------------------------------------------
(* The state machine                                                        *)

W == World(views, content, lira)
Active == views[Len(views)]
TopList == Active.container
\* The arguments of direct focus(i) and select(i) calls: every row, every
\* negative index Python accepts, and one index beyond on either side.
Indices == -(Len(TopList.elements) + 1)..(Len(TopList.elements) + 1)
Elements == {ListElement(s, f) : s \in BOOLEAN, f \in BOOLEAN}
ElementSeqs == UNION {[1..n -> Elements] : n \in 0..MaxLen}

\* Nothing has been rendered.
NoRender == [op |-> "none", texts |-> <<>>, index |-> 0, nodes |-> <<>>,
             out |-> <<>>, err |-> "none"]

Started(v, lr) ==
    /\ views = <<v>>
    /\ lira = lr
    /\ content = NoContent
    /\ calls = <<>>
    /\ last = [op |-> "init", arg |-> 0, level |-> 1, from |-> 0,
               err |-> "none", transfer |-> "none"]
    /\ downs = 0
    /\ rendered = NoRender

\* Either a List built directly from a sequence of elements, or the
\* application's first view: the books of the collection.
Init ==
    \/ \E es \in ElementSeqs :
          Started([kind |-> "List", book |-> -1, index |-> -1, container |-> List(es)],
                  Collection(0))
    \/ \E nb \in 0..MaxItems :
          Started(BooksList(nb), Collection(nb))

Step(op, arg, rs) ==
    \E r \in rs :
        /\ views' = r.w.views
        /\ content' = r.w.content
        /\ lira' = r.w.lira
        /\ calls' = r.calls
        /\ last' = [op |-> op, arg |-> arg, level |-> Len(views),
                    from |-> TopList.index, err |-> r.err, transfer |-> r.transfer]
        /\ rendered' = rendered

\* focus(i) and select(i) called by a program that built the List itself;
\* on the containers of the hierarchy views the source calls select only
\* from the handlers below and from ChapterSectionsList.__init__.
CallFocus == \E i \in Indices :
    Active.kind = "List" /\ Step("focus", i, Apply(W, Direct(focus(TopList, i)))) /\ downs' = 0

CallSelect == \E i \in Indices :
    Active.kind = "List" /\ Step("select", i, Apply(W, Direct(select(TopList, i)))) /\ downs' = 0

KeyUp == Step("Up", 0, Apply(W, key_Up(TopList))) /\ downs' = 0

KeyBackTab == Step("BackTab", 0, Apply(W, key_BackTab(TopList))) /\ downs' = 0

KeyDown ==
    /\ Step("Down", 0, Apply(W, key_Down(TopList)))
    /\ downs' = IF downs > 0 THEN Min(downs + 1, MaxRun)
                ELSE IF TopList.index = 0 THEN 1 ELSE 0

KeyTab == Step("Tab", 0, Apply(W, key_Tab(TopList))) /\ downs' = 0

KeyEnter == Step("Enter", 0, Apply(W, key_Enter(TopList))) /\ downs' = 0

\* A mouse event reaches the handler of an existing row's text fragment.
Mouse == \E i \in 0..(Len(TopList.elements) - 1), t \in MouseEventType :
    Step(t, i, Apply(W, Direct(mouse_select(TopList, i, t)))) /\ downs' = 0

Next ==
    \/ CallFocus
    \/ CallSelect
    \/ KeyUp
    \/ KeyBackTab
    \/ KeyDown
    \/ KeyTab
    \/ KeyEnter
    \/ Mouse

Spec == Init /\ [][Next]_vars

\* The user's events alone: keys, and the mouse on the rows displayed.
NextEvents ==
    \/ KeyUp
    \/ KeyBackTab
    \/ KeyDown
    \/ KeyTab
    \/ KeyEnter
    \/ Mouse

SpecEvents == Init /\ [][NextEvents]_vars

\* The two rendering functions, applied to every input within the bounds.
\* A node's tag is a key of styles or any other tag, for which "Unknown"
\* stands; its text is empty or not.
Tags == DOMAIN styles \cup {"Unknown"}
Nodes == {[tagname |-> t, text |-> x] : t \in Tags, x \in {"", "a"}}
NodeSeqs == UNION {[1..n -> Nodes] : n \in 0..MaxNodes}
TextSeqs == UNION {[1..n -> Texts] : n \in 0..MaxLen}

InitRender ==
    Started([kind |-> "List", book |-> -1, index |-> -1, container |-> List(<<>>)],
            Collection(0))

\* The display surface asks a List for its text.  A rendering reads nothing
\* an earlier one left, so each behaviour holds one.
RenderList == \E texts \in TextSeqs :
    \E i \in 0..Max(Len(texts) - 1, 0) :
        /\ rendered = NoRender
        /\ rendered' = [op |-> "_get_text", texts |-> texts, index |-> i,
                        nodes |-> <<>>, out |-> _get_text(texts, i), err |-> "none"]
        /\ UNCHANGED nav

\* A section is rendered.
RenderLabel == \E nodes \in NodeSeqs :
    LET r == get_label(nodes)
    IN  /\ rendered = NoRender
        /\ rendered' = [op |-> "get_label", texts |-> <<>>, index |-> 0,
                        nodes |-> nodes, out |-> r.spans, err |-> r.err]
        /\ UNCHANGED nav

NextRender ==
    \/ RenderList
    \/ RenderLabel

SpecRender == InitRender /\ [][NextRender]_vars

----------------------------------------------------------------------------
(* Properties                                                               *)

Size(l) == Len(l.elements)
Levels == 1..Len(views)
\* The list the last operation was run on.
Operated == views[last.level].container
IsCommit(op) == op \in {"select", "MOUSE_UP", "Enter"}
\* The row the last operation committed: Enter commits the focused row.
CommitRow(lst) == IF lst.op = "Enter" THEN lst.from ELSE lst.arg
\* The on_select invocations the last operation made on the list at level.
SelectCalls(cs, level) ==
    SelectSeq(cs, LAMBDA c : c.level = level /\ c.cb = "on_select")

\* C1: in every list with at least one element, after any sequence of Up,
\* Down, Tab, Shift-Tab, Space/Enter keys and pointer releases on existing
\* rows, 0 <= focus index < number of elements.  (Checked under SpecEvents.)
C1_FocusInRange ==
    \A k \in Levels :
        LET l == views[k].container
        IN  Size(l) >= 1 => 0 <= l.index /\ l.index < Size(l)

\* Down was pressed with the focus already on the last of several rows.
C1_Witness ==
    /\ last.op = "Down"
    /\ Size(TopList) >= 2
    /\ last.from = Size(TopList) - 1
    /\ TopList.index = Size(TopList) - 1

\* C2: in every reachable state of every list, of any length, the committed
\* index is -1 or the index of an existing row.
C2_CommittedValid ==
    \A k \in Levels :
        LET l == views[k].container
        IN  l.selected = -1 \/ (0 <= l.selected /\ l.selected < Size(l))

\* C3: a commit of an existing row i (select(i), a pointer release on row i,
\* or Space/Enter with the focus on row i) leaves the list with focus index
\* i and committed index i, and has invoked the on_select callback of row i,
\* when the element has one, exactly once and no other on_select of the list.
C3_Commit ==
    (IsCommit(last.op) /\ 0 <= CommitRow(last) /\ CommitRow(last) < Size(Operated)) =>
        /\ Operated.index = CommitRow(last)
        /\ Operated.selected = CommitRow(last)
        /\ SelectCalls(calls, last.level) =
              IF Operated.elements[CommitRow(last) + 1].on_select
              THEN <<Call(last.level, "on_select", CommitRow(last))>>
              ELSE <<>>

\* A pointer release on row 1 opened the next view.
C3_Witness ==
    /\ last.op = "MOUSE_UP"
    /\ last.arg = 1
    /\ last.err = "none"
    /\ Len(views) = last.level + 1
    /\ SelectCalls(calls, last.level) = <<Call(last.level, "on_select", 1)>>

\* C4: in a list of N >= 1 elements, k consecutive Down presses that start
\* with the focus on row 0 leave the focus on row min(k, N-1), so N presses
\* end on row N-1; and no Down press leaves the focus index above N-1.
C4_NextClamped ==
    Size(TopList) >= 1 =>
        /\ downs >= 1 => TopList.index = Min(downs, Size(TopList) - 1)
        /\ last.op = "Down" => TopList.index <= Size(TopList) - 1

\* Three rows, and one Down press more than there are rows.
C4_Witness ==
    /\ Size(TopList) = 3
    /\ downs = 4
    /\ TopList.index = 2

\* C5: in a non-empty list the Up key pressed with the focus on row 0 leaves
\* the focus index 0.
C5_PreviousClamped ==
    (last.op = "Up" /\ last.from = 0 /\ Size(Operated) >= 1) => Operated.index = 0

C5_Witness ==
    /\ last.op = "Up"
    /\ last.from = 0
    /\ Size(Operated) >= 2
    /\ Operated.index = 0
    /\ last.err = "none"

\* The last operation built a view of a chapter's sections and pushed it.
SectionsJustBuilt ==
    /\ Len(views) = last.level + 1
    /\ Active.kind = "ChapterSectionsList"

\* C6: right after a view of a chapter's sections has been constructed, its
\* committed index is 0, its focus index is 0 and section 0 of that chapter
\* is the section handed to the content renderer.
C6_FirstSectionSelected ==
    SectionsJustBuilt =>
        /\ TopList.selected = 0
        /\ TopList.index = 0
        /\ content = [book |-> Active.book, chapter |-> Active.index, section |-> 0]
        /\ calls[Len(calls)] = Call(Len(views), "on_select", 0)

C6_Witness ==
    /\ SectionsJustBuilt
    /\ Size(TopList) = 2
    /\ TopList.selected = 0

\* The worlds k Down presses lead to (each press has one outcome).
RECURSIVE Downs(_, _)
Downs(w, k) ==
    IF k = 0 THEN w
    ELSE LET r == CHOOSE x \in Apply(w, key_Down(w.views[Len(w.views)].container)) : TRUE
         IN  Downs(r.w, k - 1)

\* What a commit leaves: the world, the on_select invocations, the error.
Committed(rs) ==
    {[w |-> r.w,
      selects |-> SelectSeq(r.calls, LAMBDA c : c.cb = "on_select"),
      err |-> r.err] : r \in rs}

\* C7: a pointer release on row i ends in a state commit(i) ends in, with the
\* same callbacks invoked; and, when the focus is on a row at or before i, in
\* the state (focus index, committed index, cursor, views, on_select
\* invocations) that the Down presses to row i followed by Enter end in.
C7_ReleaseIsCommit ==
    [][last'.op = "MOUSE_UP" =>
         LET i    == last'.arg
             post == [w |-> World(views', content', lira'), calls |-> calls',
                      err |-> last'.err, transfer |-> last'.transfer]
             path == Downs(W, i - TopList.index)
         IN  /\ post \in Apply(W, Direct(select(TopList, i)))
             /\ (0 <= TopList.index /\ TopList.index <= i) =>
                   Committed({post}) \subseteq
                      Committed(Apply(path, key_Enter(path.views[Len(path.views)].container)))
      ]_vars

\* A release on row 1 of three rows, the focus on row 0 and nothing committed.
C7_Witness ==
    /\ last.op = "MOUSE_UP"
    /\ last.arg = 1
    /\ last.from = 0
    /\ Size(Operated) = 3
    /\ Operated.selected = 1
    /\ Operated.index = 1

\* C8: the active view changes only by a commit that pushes one view: from
\* the books to the chapters of the book committed, from the chapters of a
\* book to the sections of the chapter committed; a commit on the books hands
\* nothing to the content renderer, and a commit that returns without error
\* on the books or on the chapters does push that view.
C8_NoLevelSkipped ==
    [][LET a == Active
           b == views'[Len(views')]
           row == RowOf(a.container.elements, CommitRow(last'))
           toChapters == /\ a.kind = "BooksList"
                         /\ b.kind = "BookChaptersList"
                         /\ b.book = row
                         /\ content' = content
           toSections == /\ a.kind = "BookChaptersList"
                         /\ b.kind = "ChapterSectionsList"
                         /\ b.book = a.book
                         /\ b.index = row
       IN  /\ (Len(views') /= Len(views) \/ <<b.kind, b.book, b.index>> /= <<a.kind, a.book, a.index>>) =>
                /\ IsCommit(last'.op)
                /\ views' = Append([views EXCEPT ![Len(views)].container = views'[Len(views)].container], b)
                /\ toChapters \/ toSections
           /\ (IsCommit(last'.op) /\ last'.err = "none" /\ a.kind = "BooksList") => toChapters
           /\ (IsCommit(last'.op) /\ last'.err = "none" /\ a.kind = "BookChaptersList") => toSections
      ]_vars

\* Book 0, then its chapter 1, then section 0 committed in the sections view.
C8_Witness ==
    /\ Len(views) = 3
    /\ views[1].kind = "BooksList" /\ views[1].container.selected = 0
    /\ views[2].kind = "BookChaptersList" /\ views[2].book = 0
    /\ views[2].container.selected = 1
    /\ Active.kind = "ChapterSectionsList" /\ Active.book = 0 /\ Active.index = 1
    /\ last.op = "Enter" /\ last.level = 3
    /\ TopList.selected = 0
    /\ content = [book |-> 0, chapter |-> 1, section |-> 0]

\* C9: an operation that ends in an error leaves the focus index, the
\* committed index, the cursor and the active view as they were.
C9_FailureLeavesState ==
    [][last'.err /= "none" => views' = views /\ content' = content]_vars

\* C10: focus(i) on a list of N >= 1 elements leaves the focus index
\* min(max(i, 0), N-1) and invokes the on_focus callback of that row if the
\* element has one.
C10_FocusClamps ==
    (last.op = "focus" /\ Size(Operated) >= 1) =>
        LET row == Min(Max(last.arg, 0), Size(Operated) - 1)
        IN  /\ Operated.index = row
            /\ calls = IF Operated.elements[row + 1].on_focus
                       THEN <<Call(last.level, "on_focus", row)>> ELSE <<>>

\* C11: rendering a section never fails on a tag that is no key of the
\* style table: the pass completes and every node has its span.
C11_UnknownTagRendered ==
    rendered.op = "get_label" =>
        /\ rendered.err = "none"
        /\ Len(rendered.out) >= Len(rendered.nodes)

\* The line breaks that precede the span of node k.
BreaksBefore(nodes, k) ==
    Cardinality({j \in 1..(k - 1) : nodes[j].tagname = "Paragraph"})

\* C12: a render pass that completes yields the nodes' spans in the order of
\* the nodes, one span per node carrying the node's text and its tag's
\* style, and a line-break span right after the span of each paragraph node
\* and nowhere else.
C12_SpansInOrder ==
    (rendered.op = "get_label" /\ rendered.err = "none") =>
        LET nodes == rendered.nodes
            out   == rendered.out
            n     == Len(nodes)
            at(k) == k + BreaksBefore(nodes, k)
        IN  /\ Len(out) = n + BreaksBefore(nodes, n + 1)
            /\ \A k \in 1..n :
                  /\ out[at(k)] = Span(styles[nodes[k].tagname], nodes[k].text)
                  /\ nodes[k].tagname = "Paragraph" => out[at(k) + 1] = LineBreak

\* A paragraph followed by a literal: paragraph span, line break, literal span.
C12_Witness ==
    /\ rendered.op = "get_label"
    /\ rendered.err = "none"
    /\ Len(rendered.nodes) = 2
    /\ rendered.nodes[1].tagname = "Paragraph"
    /\ rendered.nodes[2].tagname = "Literal"
    /\ Len(rendered.out) = 3
    /\ rendered.out[2] = LineBreak
    /\ rendered.out[3] = Span("#fff", rendered.nodes[2].text)

\* The line separators of a text.
Separators(text) == Cardinality({k \in DOMAIN text : text[k] = "\n"})
RECURSIVE SeparatorsOf(_)
SeparatorsOf(runs) ==
    IF runs = <<>> THEN 0 ELSE Separators(Head(runs).text) + SeparatorsOf(Tail(runs))

\* One run per element in element order; each run is the element's text with
\* its own line separators turned into spaces, followed in every run but the
\* last by a single line separator.
RunsWellFormed ==
    LET texts == rendered.texts
        out   == rendered.out
        n     == Len(texts)
    IN  /\ Len(out) = n
        /\ \A i \in 1..n :
              LET body == SubSeq(out[i].text, 1, Len(texts[i]))
              IN  /\ out[i].handler = i - 1
                  /\ Len(body) = Len(texts[i])
                  /\ Separators(body) = 0
                  /\ \A k \in 1..Len(body) : texts[i][k] /= "\n" => body[k] = texts[i][k]
                  /\ out[i].text = body \o (IF i < n THEN <<"\n">> ELSE <<>>)

\* C13 as stated: rendering a list of N elements yields N-1 line separators,
\* whatever N is.
C13_SeparatorsAlwaysNMinus1 ==
    rendered.op = "_get_text" =>
        /\ SeparatorsOf(rendered.out) = Len(rendered.texts) - 1
        /\ RunsWellFormed

\* C13, amended: rendering a list of N >= 1 elements yields exactly N-1 line
\* separators, one at the end of every run but the last and none elsewhere
\* even when an element's text holds line separators; a list of no elements
\* yields no run and no line separator.
C13_Separators ==
    rendered.op = "_get_text" =>
        /\ SeparatorsOf(rendered.out) = Max(Len(rendered.texts) - 1, 0)
        /\ RunsWellFormed

\* Two elements, the first with a line separator in its own text.
C13_Witness ==
    /\ rendered.op = "_get_text"
    /\ Len(rendered.texts) = 2
    /\ Separators(rendered.texts[1]) >= 1
    /\ SeparatorsOf(rendered.out) = 1

KeyOps == {"Up", "Down", "Tab", "BackTab", "Enter"}

\* C14 as stated: on a list without elements every focus, commit, move and
\* key operation ends in an error.
C14_EmptyAlwaysError ==
    (Size(Operated) = 0 /\ last.op \in KeyOps \cup {"focus", "select"}) =>
        last.err /= "none"

\* C14, amended: on a list without elements focus, commit, move_previous,
\* move_next and the Up, Down, Space and Enter keys end in an error; Tab and
\* Shift-Tab pressed with the focus index at its initial 0 do not: they hand
\* the keyboard focus to the next or previous region and complete.
C14_EmptyErrors ==
    Size(Operated) = 0 =>
        /\ last.op \in {"focus", "select", "Up", "Down", "Enter"} =>
              last.err = "IndexError"
        /\ (last.op = "Tab" /\ last.from = 0) =>
              last.err = "none" /\ last.transfer = "focus_next"
        /\ (last.op = "BackTab" /\ last.from = 0) =>
              last.err = "none" /\ last.transfer = "focus_previous"

\* Enter pressed on the books view of a collection without books.
C14_Witness ==
    /\ Size(Operated) = 0
    /\ Active.kind = "BooksList"
    /\ last.op = "Enter"
    /\ last.err = "IndexError"

\* The on_focus invocation focus(row) makes on the list operated on.
FocusCalls(row) ==
    IF Operated.elements[row + 1].on_focus
    THEN <<Call(last.level, "on_focus", row)>> ELSE <<>>

C16_SectionCommitTerminal ==
    [][(Active.kind = "ChapterSectionsList" /\ IsCommit(last'.op) /\ last'.err = "none") =>
         LET row == RowOf(TopList.elements, CommitRow(last'))
         IN  /\ content' = [book |-> Active.book, chapter |-> Active.index, section |-> row]
             /\ Len(views') = Len(views)
             /\ views' = [views EXCEPT ![Len(views)].container = select(TopList, CommitRow(last')).list]
             /\ calls' = <<Call(Len(views), "on_select", row)>>
      ]_vars

\* Section 1 committed in a sections view.
C16_Witness ==
    /\ Active.kind = "ChapterSectionsList"
    /\ last.level = Len(views)
    /\ IsCommit(last.op)
    /\ last.err = "none"
    /\ TopList.selected = 1
    /\ content = [book |-> Active.book, chapter |-> Active.index, section |-> 1]

\* C17: no operation changes the element sequence of a list: every view
\* keeps the elements it was built with, and views are only added.
C17_ElementsKept ==
    [][/\ Len(views') >= Len(views)
       /\ \A k \in 1..Len(views) :
             /\ views'[k].container.elements = views[k].container.elements
             /\ views'[k].kind = views[k].kind
      ]_vars

\* Three views deep, after commits on lists of several rows.
C17_Witness ==
    /\ Len(views) = 3
    /\ Size(views[1].container) = 2
    /\ Size(views[2].container) = 3
    /\ views[1].container.selected = 1
    /\ views[2].container.selected = 2

\* C18: focus, move_previous, move_next and the Up, Down, Tab and Shift-Tab
\* keys change no committed index and invoke no on_select; a committed index
\* changes only in a commit.
C18_FocusIndependent ==
    [][/\ last'.op \in {"focus", "Up", "Down", "Tab", "BackTab"} =>
             /\ Len(views') = Len(views)
             /\ \A k \in 1..Len(views) :
                   views'[k].container.selected = views[k].container.selected
             /\ \A j \in 1..Len(calls') : calls'[j].cb /= "on_select"
       /\ (\E k \in 1..Len(views) :
              views'[k].container.selected /= views[k].container.selected) =>
             IsCommit(last'.op)
      ]_vars

\* The focus moved off the committed row.
C18_Witness ==
    /\ last.op = "Down"
    /\ last.err = "none"
    /\ Operated.selected = 0
    /\ Operated.index = 1

\* C19: the cursor of every list is at column 0 of the row of the focus
\* index.
C19_CursorOnFocus ==
    \A k \in Levels :
        views[k].container.cursor = Point(0, views[k].container.index)

C19_Witness ==
    /\ last.op = "Down"
    /\ TopList.index = 1
    /\ TopList.cursor = Point(0, 1)

\* C20: a mouse event on a row that is no pointer release changes no focus
\* index, committed index or cursor and invokes no callback.
C20_OtherMouseEventsIgnored ==
    [][last'.op \in MouseEventType \ {"MOUSE_UP"} =>
         /\ views' = views
         /\ content' = content
         /\ calls' = <<>>
         /\ last'.err = "none"
      ]_vars

\* A press on row 1 with the focus on row 0 and nothing committed.
C20_Witness ==
    /\ last.op = "MOUSE_DOWN"
    /\ last.arg = 1
    /\ Operated.index = 0
    /\ Operated.selected = -1

=============================================================================
